---- MODULE Spec2Model ----
(***************************************************************************)
(* Secret-custody core of agent-wallet-cli: keystore, lockout guard and    *)
(* session token engine, with the unlock / export / lock commands that     *)
(* drive them.  Time is the wall clock in milliseconds.  Cryptographic     *)
(* primitives are modelled symbolically (a MAC, a derived key or an AEAD   *)
(* tag is the tuple of its inputs, so two of them are equal exactly when   *)
(* their inputs are equal).                                                *)
(***************************************************************************)
EXTENDS Integers, Sequences, FiniteSets, TLC

VARIABLES
    now,          \* wall clock, ms since the epoch of the run
    inflight,     \* the createKeystore invocation each concurrent process is in
    mem,          \* the guarded scope of withSecretBuffer: its buffer and where it is
    attempts,     \* the unlock / export invocation each concurrent process is in
    tested,       \* history: name -> wrong guesses tried on the keystore since the count last started over
    resets,       \* number of times the failure count of a lockout record started over
    impl,         \* which session engine of the repository is linked in
    keystores,    \* keystore/<name>.json   : name -> KeystoreFile
    lockouts,     \* lockout/<name>.json    : name -> LockoutRecord
    sessions,     \* sessions/<name>.json   : name -> SessionFile
    tokenFiles,   \* sessions/<name>.token  : name -> token (session.ts only)
    rng,          \* number of random draws made so far (each draw is fresh)
    issued,       \* history: name -> what the last createSession for it got and returned
    tampered,     \* history: name -> field of the current session record changed from outside
    streak,       \* history: name -> wrong-password unlock invocations in a row, from no failures
    res           \* outcome of the last operation

vars == <<now, resets, impl, attempts, tested, inflight, mem, keystores, lockouts, sessions, tokenFiles, rng, issued,
          tampered, streak, res>>

----------------------------------------------------------------------------
(* Bounds of the model *)

MaxRng == 2
MaxResets == 1
MaxLen == 2

Names == {"w"}
Passwords == {"P1", "P2"}
Secrets == {"S1", "S2"}
KeystoreInputs == {<<"S1", "P1">>, <<"S2", "P2">>}
UnlockDurations == {0, 86401}
ApiDurations == {<<>>, <<0>>, <<1>>, <<86401>>}
Bytes == {0, 1, 255}
Chars == {65, 233}
Fns == {"returns", "throws", "rejects", "writes"}

----------------------------------------------------------------------------
(* Program constants *)

TOKEN_PREFIX == "wlt_"
TOKEN_ID_SIZE == 16
TOKEN_SECRET_SIZE == 32
HKDF_INFO == "agent-wallet-cli-session-key"
HKDF_INFO_TS == "wallet-cli-session-key"
DEFAULT_DURATION == 3600
MAX_DURATION == 86400

MAX_FAILED_ATTEMPTS == 5
BASE_DELAY_MS == 1000
LOCKOUT_DURATION_MS == 15 * 60 * 1000

\* wrong guesses counted per wallet: one more than the threshold
MaxTested == MAX_FAILED_ATTEMPTS + 1

\* null in a timestamp field of a lockout record
Null == -1
\* the time value of new Date(s) for a string s that is not a date
NaN == -2

Min(a, b) == IF a < b THEN a ELSE b

RECURSIVE Pow2(_)
Pow2(n) == IF n <= 0 THEN 1 ELSE 2 * Pow2(n - 1)

\* a < b on Date values: false as soon as one side is an Invalid Date
DateLess(a, b) == a # NaN /\ b # NaN /\ a < b

Remove(f, n) == [m \in DOMAIN f \ {n} |-> f[m]]
Put(f, n, v) == (n :> v) @@ f

----------------------------------------------------------------------------
(* Memory guard *)

\* sequences over S of length at most n
SeqsUpTo(S, n) == UNION {[1..k -> S] : k \in 0..n}

\* buf.fill(0)
clearBuffer_keep(buf) == buf

clearBuffer(buf) == [i \in DOMAIN buf |-> 0]

\* the UTF-8 bytes of one character below U+0800
Utf8(c) == IF c < 128 THEN <<c>> ELSE <<192 + (c \div 64), 128 + (c % 64)>>

\* Buffer.from(string, 'utf-8')
RECURSIVE BufferFrom(_)
BufferFrom(str) ==
    IF str = <<>> THEN <<>> ELSE Utf8(Head(str)) \o BufferFrom(Tail(str))

AllZero(buf) == \A i \in DOMAIN buf : buf[i] = 0

\* no guarded scope is open
NoScope ==
    [pc |-> "idle", via |-> "", given |-> <<>>, buf |-> <<>>, fn |-> "",
     pending |-> [kind |-> "", value |-> <<>>], out |-> [kind |-> "", value |-> <<>>]]

----------------------------------------------------------------------------
(* Symbolic cryptography *)

Hex(b) == [hex |-> b]

\* argon2.hash(password, salt, params)
deriveKeyFromPassword(password, salt) == [pw |-> password, salt |-> salt]

deriveHkdfKey(ikm, salt, info) == [ikm |-> ikm, salt |-> salt, info |-> info]

hmacSha256(key, data) == [key |-> key, data |-> data]

GcmTag(key, iv, ct) == [k |-> key, iv |-> iv, ct |-> ct]

encryptAesGcm(plaintext, key, iv) ==
    LET ct == [k |-> key, iv |-> iv, pt |-> plaintext]
    IN  [algorithm |-> "aes-256-gcm",
         iv |-> Hex(iv),
         auth_tag |-> Hex(GcmTag(key, iv, ct)),
         ciphertext |-> Hex(ct)]

\* the length in bytes of the tag cipher.getAuthTag() returns
AUTH_TAG_SIZE == 16

\* the tag lengths setAuthTag accepts for aes-256-gcm
ValidTagLengths == {4, 8, 12, 13, 14, 15, 16}

\* the length of a stored tag: a tag cut short carries its length
TagLength(auth_tag) ==
    IF "len" \in DOMAIN auth_tag THEN auth_tag.len ELSE AUTH_TAG_SIZE

\* the messages of the errors the decipher throws
MSG_IV == "Invalid initialization vector"
MSG_TAG_LENGTH == "Invalid authentication tag length"
MSG_AUTH == "Unsupported state or unable to authenticate data"

\* message.includes(needle), for the messages above
includes(message, needle) ==
    CASE needle = "Unsupported state" -> message = MSG_AUTH
      [] needle = "auth" -> message \in {MSG_TAG_LENGTH, MSG_AUTH}
      [] OTHER -> FALSE

\* decipher.final() verifies the tag under the key: reached once
\* createDecipheriv took the iv and setAuthTag took the tag
TagCheckFails(cipher, key) ==
    /\ cipher.iv.hex # Null
    /\ TagLength(cipher.auth_tag) \in ValidTagLengths
    /\ cipher.auth_tag.hex # GcmTag(key, cipher.iv.hex, cipher.ciphertext.hex)

\* variant: the tag is not verified
decryptAesGcm_noTag(cipher, key) ==
    [ok |-> TRUE, pt |-> cipher.ciphertext.hex.pt, message |-> ""]

\* createDecipheriv throws on an empty iv, setAuthTag on a tag of a length
\* it does not accept, decipher.final() unless the tag verifies under the key
decryptAesGcm(cipher, key) ==
    IF cipher.iv.hex = Null
    THEN [ok |-> FALSE, pt |-> "", message |-> MSG_IV]
    ELSE IF TagLength(cipher.auth_tag) \notin ValidTagLengths
    THEN [ok |-> FALSE, pt |-> "", message |-> MSG_TAG_LENGTH]
    ELSE IF cipher.auth_tag.hex # GcmTag(key, cipher.iv.hex, cipher.ciphertext.hex)
    THEN [ok |-> FALSE, pt |-> "", message |-> MSG_AUTH]
    ELSE [ok |-> TRUE, pt |-> cipher.ciphertext.hex.pt, message |-> ""]

----------------------------------------------------------------------------
(* Keystore *)

\* encryptMnemonic: fresh salt and iv, key = Argon2id(password, salt)
encryptMnemonic(mnemonic, password, salt, iv) ==
    [kdfParams |-> [algorithm |-> "argon2id", salt |-> Hex(salt)],
     cipherParams |-> encryptAesGcm(mnemonic, deriveKeyFromPassword(password, salt), iv)]

\* variant: the key is derived with a salt other than the stored one
decryptMnemonic_otherSalt(kdfParams, cipherParams, password) ==
    decryptAesGcm(cipherParams, deriveKeyFromPassword(password, kdfParams.salt.hex + 1))

decryptMnemonic(kdfParams, cipherParams, password) ==
    decryptAesGcm(cipherParams, deriveKeyFromPassword(password, kdfParams.salt.hex))

KeystoreFile(name, mnemonic, password, salt, iv, t) ==
    LET e == encryptMnemonic(mnemonic, password, salt, iv)
    IN  [version |-> 1, name |-> name, created_at |-> t,
         kdf |-> e.kdfParams, cipher |-> e.cipherParams]

\* decryptKeystore: readKeystore, then decryptMnemonic; an error whose message
\* contains 'Unsupported state' or 'auth' becomes ERR_WRONG_PASSWORD, any other
\* is thrown on as it is
decryptKeystore(files, name, password) ==
    IF name \notin DOMAIN files
    THEN [code |-> "ERR_WALLET_NOT_FOUND", mnemonic |-> ""]
    ELSE LET d == decryptMnemonic(files[name].kdf, files[name].cipher, password)
         IN  IF d.ok THEN [code |-> "OK", mnemonic |-> d.pt]
             ELSE IF includes(d.message, "Unsupported state") \/ includes(d.message, "auth")
             THEN [code |-> "ERR_WRONG_PASSWORD", mnemonic |-> ""]
             ELSE [code |-> "ERR_INTERNAL", mnemonic |-> ""]

----------------------------------------------------------------------------
(* Lockout guard *)

ZeroRecord == [failed_attempts |-> 0, last_failed_at |-> Null, locked_until |-> Null]

readLockoutRecord(files, name) ==
    IF name \in DOMAIN files THEN files[name] ELSE ZeroRecord

\* variant: the delay after failure k is 2^k base delays
InBackoff_doubled(record, t) ==
    /\ record.failed_attempts > 0
    /\ record.last_failed_at # Null
    /\ DateLess(t, record.last_failed_at + BASE_DELAY_MS * Pow2(record.failed_attempts))

\* the backoff test of checkLockout on the record it holds at time t
InBackoff(record, t) ==
    /\ record.failed_attempts > 0
    /\ record.last_failed_at # Null
    /\ LET backoffMs == BASE_DELAY_MS * Pow2(record.failed_attempts - 1)
           earliestRetry == record.last_failed_at + backoffMs
       IN  DateLess(t, earliestRetry)

\* variant: a lock is never in force
LockActive_never(record, t) == FALSE

\* the full-lock test of checkLockout
LockActive(record, t) ==
    record.locked_until # Null /\ DateLess(t, record.locked_until)

\* variant: a lock that ran out is lifted, the failures on record are kept
checkLockout_keepCount(files, name, t) ==
    LET record == readLockoutRecord(files, name)
        expired == record.locked_until # Null /\ ~LockActive(record, t)
        rec2 == IF expired THEN [record EXCEPT !.locked_until = Null] ELSE record
        files2 == IF expired THEN Put(files, name, rec2) ELSE files
    IN  IF LockActive(record, t)
        THEN [ok |-> FALSE, record |-> record, files |-> files]
        ELSE IF InBackoff(rec2, t)
        THEN [ok |-> FALSE, record |-> rec2, files |-> files2]
        ELSE [ok |-> TRUE, record |-> rec2, files |-> files2]

\* checkLockout at time t: ok = FALSE is the thrown ERR_WALLET_LOCKED,
\* record is the record it returns, files the lockout directory it leaves
checkLockout(files, name, t) ==
    LET record == readLockoutRecord(files, name)
        expired == record.locked_until # Null /\ ~LockActive(record, t)
        rec2 == IF expired THEN ZeroRecord ELSE record
        files2 == IF expired THEN Put(files, name, rec2) ELSE files
    IN  IF LockActive(record, t)
        THEN [ok |-> FALSE, record |-> record, files |-> files]
        ELSE IF InBackoff(rec2, t)
        THEN [ok |-> FALSE, record |-> rec2, files |-> files2]
        ELSE [ok |-> TRUE, record |-> rec2, files |-> files2]

\* variant: the fifth failure sets no lock
recordFailedAttempt_noLock(files, name, record, t) ==
    Put(files, name,
        [failed_attempts |-> record.failed_attempts + 1,
         last_failed_at |-> t,
         locked_until |-> record.locked_until])

\* variant: the lock is set one failure early
recordFailedAttempt_lockAtFour(files, name, record, t) ==
    Put(files, name,
        [failed_attempts |-> record.failed_attempts + 1,
         last_failed_at |-> t,
         locked_until |-> IF record.failed_attempts + 1 >= MAX_FAILED_ATTEMPTS - 1
                          THEN t + LOCKOUT_DURATION_MS
                          ELSE record.locked_until])

recordFailedAttempt(files, name, record, t) ==
    LET n == record.failed_attempts + 1
    IN  Put(files, name,
            [failed_attempts |-> n,
             last_failed_at |-> t,
             locked_until |-> IF n >= MAX_FAILED_ATTEMPTS
                              THEN t + LOCKOUT_DURATION_MS
                              ELSE record.locked_until])

\* variant: the record is left in place
recordSuccess_keep(files, name) == files

recordSuccess(files, name) == Remove(files, name)

----------------------------------------------------------------------------
(* Session token engine *)

NoToken == [prefix |-> "", len |-> 0, id |-> 0, secret |-> 0]

encodeToken(tokenId, tokenSecret) ==
    [prefix |-> TOKEN_PREFIX, len |-> TOKEN_ID_SIZE + TOKEN_SECRET_SIZE,
     id |-> tokenId, secret |-> tokenSecret]

\* variant: the two halves are cut the other way round
decodeToken_swapped(token) ==
    IF token.prefix # TOKEN_PREFIX THEN [ok |-> FALSE, tokenId |-> 0, tokenSecret |-> 0]
    ELSE IF token.len # TOKEN_ID_SIZE + TOKEN_SECRET_SIZE
    THEN [ok |-> FALSE, tokenId |-> 0, tokenSecret |-> 0]
    ELSE [ok |-> TRUE, tokenId |-> token.secret, tokenSecret |-> token.id]

\* decodeToken: ok = FALSE is the thrown ERR_SESSION_INVALID
decodeToken(token) ==
    IF token.prefix # TOKEN_PREFIX THEN [ok |-> FALSE, tokenId |-> 0, tokenSecret |-> 0]
    ELSE IF token.len # TOKEN_ID_SIZE + TOKEN_SECRET_SIZE
    THEN [ok |-> FALSE, tokenId |-> 0, tokenSecret |-> 0]
    ELSE [ok |-> TRUE, tokenId |-> token.id, tokenSecret |-> token.secret]

\* variant: the requested duration is taken as it is
actualDuration_uncapped(duration) ==
    IF duration = <<>> THEN DEFAULT_DURATION ELSE duration[1]

\* Math.min(duration ?? DEFAULT_DURATION, MAX_DURATION); <<>> is "not given"
actualDuration(duration) ==
    Min(IF duration = <<>> THEN DEFAULT_DURATION ELSE duration[1], MAX_DURATION)

\* the record without its hmac field
WithoutHmac(s) ==
    [version |-> s.version, wallet_name |-> s.wallet_name, token_id |-> s.token_id,
     hkdf_salt |-> s.hkdf_salt, cipher |-> s.cipher,
     created_at |-> s.created_at, expires_at |-> s.expires_at]

\* the HKDF info string of each engine
HkdfInfo(engine) == IF engine = "part_013" THEN HKDF_INFO ELSE HKDF_INFO_TS

\* secureRandom: the k-th buffer drawn by the n-th call that draws
\* (k = 0 token id, 1 token secret, 2 salt, 3 iv); no two draws are equal
Draw(n, k) == 4 * n + k

\* what the integrity tag is computed over: the canonical JSON of every field
\* (part_013), or the token id alone (src/core/session.ts)
HmacInput(engine, data, tokenId) ==
    IF engine = "part_013"
    THEN [canonical |-> data, id |-> 0]
    ELSE [canonical |-> <<>>, id |-> tokenId]

\* the session file createSession writes at time t with the n-th random draw
SessionFile(engine, walletName, mnemonic, duration, n, t) ==
    LET tokenId == Draw(n, 0)
        tokenSecret == Draw(n, 1)
        salt == Draw(n, 2)
        sessionKey == deriveHkdfKey(tokenSecret, salt, HkdfInfo(engine))
        cipher == encryptAesGcm(mnemonic, sessionKey, Draw(n, 3))
        sessionData == [version |-> 1, wallet_name |-> walletName,
                        token_id |-> Hex(tokenId), hkdf_salt |-> Hex(salt),
                        cipher |-> cipher,
                        created_at |-> t,
                        expires_at |-> t + actualDuration(duration) * 1000]
        hmac == hmacSha256(tokenSecret, HmacInput(engine, sessionData, tokenId))
    IN  [version |-> 1, wallet_name |-> walletName,
         token_id |-> Hex(tokenId), hkdf_salt |-> Hex(salt),
         cipher |-> cipher,
         created_at |-> t,
         expires_at |-> t + actualDuration(duration) * 1000,
         hmac |-> Hex(hmac)]

\* variant: a session never expires
SessionExpired_never(expiresAt, t) == FALSE

\* variant: a session is already expired at expires_at
SessionExpired_atDeadline(expiresAt, t) == expiresAt # NaN /\ ~DateLess(t, expiresAt)

\* new Date() > expiresAt
SessionExpired(expiresAt, t) == DateLess(expiresAt, t)

\* variant: the token is decoded before the session file is looked at
validateSession_decodeFirst(engine, files, walletName, token, t) ==
    IF ~decodeToken(token).ok
    THEN [code |-> "ERR_SESSION_INVALID", mnemonic |-> "", revoke |-> FALSE,
              left |-> {}]
    ELSE IF walletName \notin DOMAIN files
    THEN [code |-> "ERR_SESSION_NOT_FOUND", mnemonic |-> "", revoke |-> FALSE,
              left |-> {}]
    ELSE
    LET sessionData == files[walletName]
        d == decodeToken(token)
        expectedHmac == hmacSha256(d.tokenSecret,
                                   HmacInput(engine, WithoutHmac(sessionData), d.tokenId))
        sessionKey == deriveHkdfKey(d.tokenSecret, sessionData.hkdf_salt.hex,
                                    HkdfInfo(engine))
        dec == decryptAesGcm(sessionData.cipher, sessionKey)
    IN  IF SessionExpired(sessionData.expires_at, t)
        THEN [code |-> "ERR_SESSION_EXPIRED", mnemonic |-> "", revoke |-> TRUE,
              left |-> {}]
        ELSE IF Hex(d.tokenId) # sessionData.token_id \/ Hex(expectedHmac) # sessionData.hmac
        THEN [code |-> "ERR_SESSION_INVALID", mnemonic |-> "", revoke |-> FALSE,
              left |-> {"expectedHmac"}]
        ELSE IF ~dec.ok
        THEN [code |-> "ERR_INTERNAL", mnemonic |-> "", revoke |-> FALSE,
              left |-> {"sessionKey"}]
        ELSE [code |-> "OK", mnemonic |-> dec.pt, revoke |-> FALSE,
              left |-> {}]

\* validateSession at time t: the outcome code, the secret returned, whether
\* the session (and token) file is deleted, and the buffers holding secret
\* material that were allocated and not passed to clearBuffer when it returns
\* or throws
validateSession(engine, files, walletName, token, t) ==
    IF walletName \notin DOMAIN files
    THEN [code |-> "ERR_SESSION_NOT_FOUND", mnemonic |-> "", revoke |-> FALSE,
              left |-> {}]
    ELSE
    LET sessionData == files[walletName]
        d == decodeToken(token)
        expectedHmac == hmacSha256(d.tokenSecret,
                                   HmacInput(engine, WithoutHmac(sessionData), d.tokenId))
        sessionKey == deriveHkdfKey(d.tokenSecret, sessionData.hkdf_salt.hex,
                                    HkdfInfo(engine))
        dec == decryptAesGcm(sessionData.cipher, sessionKey)
    IN  IF SessionExpired(sessionData.expires_at, t)
        THEN [code |-> "ERR_SESSION_EXPIRED", mnemonic |-> "", revoke |-> TRUE,
              left |-> {}]
        ELSE IF ~d.ok
        THEN [code |-> "ERR_SESSION_INVALID", mnemonic |-> "", revoke |-> FALSE,
              left |-> {}]
        ELSE IF Hex(d.tokenId) # sessionData.token_id
        THEN [code |-> "ERR_SESSION_INVALID", mnemonic |-> "", revoke |-> FALSE,
              left |-> {}]
        ELSE IF Hex(expectedHmac) # sessionData.hmac
        THEN [code |-> "ERR_SESSION_INVALID", mnemonic |-> "", revoke |-> FALSE,
              left |-> {"expectedHmac"}]
        ELSE IF ~dec.ok
        THEN [code |-> "ERR_INTERNAL", mnemonic |-> "", revoke |-> FALSE,
              left |-> {"sessionKey"}]
        ELSE [code |-> "OK", mnemonic |-> dec.pt, revoke |-> FALSE,
              left |-> {}]

----------------------------------------------------------------------------
(* State *)

NoIssue ==
    [token |-> NoToken, secret |-> "", duration |-> <<>>, at |-> 0, expires |-> 0,
     left |-> {}]

Result(op, name, code, value, token, password) ==
    [op |-> op, name |-> name, code |-> code, value |-> value, token |-> token,
     pw |-> password]

\* the processes that may run createKeystore at the same time
Procs == {1, 2}

\* a process that has not called createKeystore
Idle == [pc |-> "idle", name |-> "", mnemonic |-> "", password |-> "", code |-> ""]

\* a process that is not inside unlock or export
IdleAttempt ==
    [pc |-> "idle", op |-> "", name |-> "", password |-> "", record |-> ZeroRecord]

\* no guess tried since the count started over, by invocations none of which
\* ran its check while another was between its check and its record
NoneTested == [n |-> 0, overlap |-> FALSE]

InitWith(engine) ==
    /\ now = 0
    /\ resets = 0
    /\ impl = engine
    /\ attempts = [p \in Procs |-> IdleAttempt]
    /\ tested = [n \in Names |-> NoneTested]
    /\ mem = NoScope
    /\ inflight = [p \in Procs |-> Idle]
    /\ keystores = <<>>
    /\ lockouts = <<>>
    /\ sessions = <<>>
    /\ tokenFiles = <<>>
    /\ rng = 0
    /\ issued = [n \in Names |-> NoIssue]
    /\ tampered = [n \in Names |-> "none"]
    /\ streak = [n \in Names |-> 0]
    /\ res = Result("init", "", "OK", "", NoToken, "")

\* the password a keystore record was sealed under (read off the symbolic key)
PasswordOf(name) == keystores[name].cipher.ciphertext.hex.k.pw

\* the instants around which the outcome of the password path changes: the
\* last millisecond at which a lock or a backoff still holds and the first at
\* which it no longer does
LockInstants ==
    LET lockEnds ==
            {lockouts[n].locked_until :
                n \in {m \in DOMAIN lockouts : lockouts[m].locked_until >= 0}}
            \cup {lockouts[n].last_failed_at
                    + BASE_DELAY_MS * Pow2(lockouts[n].failed_attempts - 1) :
                n \in {m \in DOMAIN lockouts : lockouts[m].last_failed_at >= 0}}
    IN  {d - 1 : d \in lockEnds} \cup lockEnds

\* the instants around which the outcome of a validation changes: the last
\* millisecond of a session and the first after it
SessionInstants ==
    LET expiries ==
            {sessions[n].expires_at :
                n \in {m \in DOMAIN sessions : sessions[m].expires_at >= 0}}
    IN  expiries \cup {d + 1 : d \in expiries}

Instants == LockInstants \cup SessionInstants

----------------------------------------------------------------------------
(* Operations *)

\* the wall clock advances to one of the instants
Tick(t) ==
    /\ t > now
    /\ now' = t
    /\ res' = Result("tick", "", "OK", "", NoToken, "")
    /\ UNCHANGED <<resets, impl, attempts, tested, mem, inflight, keystores, lockouts, sessions, tokenFiles, rng, issued,
                   tampered, streak>>

\* variant: createKeystore writes without looking for an existing file
CreateKeystore_overwrite(name, mnemonic, password) ==
    /\ rng < MaxRng
    /\ keystores' = Put(keystores, name,
                        KeystoreFile(name, mnemonic, password,
                                     Draw(rng + 1, 2), Draw(rng + 1, 3), now))
    /\ rng' = rng + 1
    /\ res' = Result("create", name, "OK", "", NoToken, password)
    /\ UNCHANGED <<now, resets, impl, attempts, tested, mem, inflight, lockouts, sessions, tokenFiles, issued, tampered, streak>>

\* init / import command: createKeystore
CreateKeystore(name, mnemonic, password) ==
    /\ rng < MaxRng
    /\ IF name \in DOMAIN keystores
       THEN /\ res' = Result("create", name, "ERR_WALLET_EXISTS", "", NoToken, password)
            /\ UNCHANGED <<keystores, rng>>
       ELSE /\ keystores' = Put(keystores, name,
                                KeystoreFile(name, mnemonic, password,
                                             Draw(rng + 1, 2), Draw(rng + 1, 3), now))
            /\ rng' = rng + 1
            /\ res' = Result("create", name, "OK", "", NoToken, password)
    /\ UNCHANGED <<now, resets, impl, attempts, tested, mem, inflight, lockouts, sessions, tokenFiles, issued, tampered, streak>>

\* createKeystore up to its first suspension: the existence check.  The
\* process throws ERR_WALLET_EXISTS or goes on to encryptMnemonic, which
\* awaits the key derivation and lets other processes run.
CreateCheck(p, name, mnemonic, password) ==
    /\ inflight[p].pc = "idle"
    /\ IF name \in DOMAIN keystores
       THEN /\ inflight' = [inflight EXCEPT ![p] =
                               [pc |-> "returned", name |-> name, mnemonic |-> mnemonic,
                                password |-> password, code |-> "ERR_WALLET_EXISTS"]]
            /\ res' = Result("create", name, "ERR_WALLET_EXISTS", "", NoToken, password)
       ELSE /\ inflight' = [inflight EXCEPT ![p] =
                               [pc |-> "checked", name |-> name, mnemonic |-> mnemonic,
                                password |-> password, code |-> ""]]
            /\ res' = Result("check", name, "OK", "", NoToken, password)
    /\ UNCHANGED <<now, resets, impl, attempts, tested, mem, keystores, lockouts, sessions, tokenFiles, rng,
                   issued, tampered, streak>>

\* variant: the write looks for the file again and refuses to replace it
CreateWrite_rechecks(p) ==
    LET c == inflight[p]
    IN  /\ c.pc = "checked"
        /\ rng < MaxRng
        /\ IF c.name \in DOMAIN keystores
           THEN /\ inflight' = [inflight EXCEPT ![p] =
                                   [c EXCEPT !.pc = "returned", !.code = "ERR_WALLET_EXISTS"]]
                /\ res' = Result("create", c.name, "ERR_WALLET_EXISTS", "", NoToken,
                                 c.password)
                /\ UNCHANGED <<keystores, rng>>
           ELSE /\ keystores' = Put(keystores, c.name,
                                    KeystoreFile(c.name, c.mnemonic, c.password,
                                                 Draw(rng + 1, 2), Draw(rng + 1, 3), now))
                /\ rng' = rng + 1
                /\ inflight' = [inflight EXCEPT ![p] =
                                   [c EXCEPT !.pc = "returned", !.code = "OK"]]
                /\ res' = Result("create", c.name, "OK", "", NoToken, c.password)
        /\ UNCHANGED <<now, resets, impl, attempts, tested, mem, lockouts, sessions, tokenFiles, issued, tampered,
                       streak>>

\* the rest of createKeystore: encrypt, build the record, writeFile over
\* whatever is at the path, return
CreateWrite(p) ==
    LET c == inflight[p]
    IN  /\ c.pc = "checked"
        /\ rng < MaxRng
        /\ keystores' = Put(keystores, c.name,
                            KeystoreFile(c.name, c.mnemonic, c.password,
                                         Draw(rng + 1, 2), Draw(rng + 1, 3), now))
        /\ rng' = rng + 1
        /\ inflight' = [inflight EXCEPT ![p] = [c EXCEPT !.pc = "returned", !.code = "OK"]]
        /\ res' = Result("create", c.name, "OK", "", NoToken, c.password)
        /\ UNCHANGED <<now, resets, impl, attempts, tested, mem, lockouts, sessions, tokenFiles, issued, tampered,
                       streak>>

\* the buffers createSession allocates for secret material, and those it
\* passes to clearBuffer before it returns the token
createSessionBuffers ==
    {"tokenId", "tokenSecret", "salt", "sessionKey", "mnemonicBuf", "hmac"}

createSessionCleared == {"mnemonicBuf", "sessionKey", "hmac", "salt"}

\* what is left as it was when createSession returns
createSessionLeft == createSessionBuffers \ createSessionCleared

\* variant: a record already there is left in place
IssueSession_keepFirst(name, mnemonic, duration) ==
    LET n == rng + 1
        token == encodeToken(Draw(n, 0), Draw(n, 1))
    IN  /\ sessions' = IF name \in DOMAIN sessions THEN sessions
                       ELSE Put(sessions, name,
                                SessionFile(impl, name, mnemonic, duration, n, now))
        /\ tokenFiles' = IF impl = "session_ts" THEN Put(tokenFiles, name, token) ELSE tokenFiles
        /\ rng' = n
        /\ issued' = [issued EXCEPT ![name] =
                         [token |-> token, secret |-> mnemonic, duration |-> duration,
                          at |-> now, expires |-> sessions'[name].expires_at,
                          left |-> createSessionLeft]]
        /\ tampered' = [tampered EXCEPT ![name] = "none"]

\* the effect of createSession on the session directory and the histories
IssueSession(name, mnemonic, duration) ==
    LET n == rng + 1
        token == encodeToken(Draw(n, 0), Draw(n, 1))
    IN  /\ sessions' = Put(sessions, name, SessionFile(impl, name, mnemonic, duration, n, now))
        /\ tokenFiles' = IF impl = "session_ts" THEN Put(tokenFiles, name, token) ELSE tokenFiles
        /\ rng' = n
        /\ issued' = [issued EXCEPT ![name] =
                         [token |-> token, secret |-> mnemonic, duration |-> duration,
                          at |-> now, expires |-> sessions'[name].expires_at,
                          left |-> createSessionLeft]]
        /\ tampered' = [tampered EXCEPT ![name] = "none"]

\* createSession called directly
CreateSession(name, mnemonic, duration) ==
    /\ rng < MaxRng
    /\ IssueSession(name, mnemonic, duration)
    /\ res' = Result("issue", name, "OK", "",
                   encodeToken(Draw(rng + 1, 0), Draw(rng + 1, 1)), "")
    /\ UNCHANGED <<now, resets, impl, attempts, tested, mem, inflight, keystores, lockouts, streak>>

\* variant: every failed decryption is recorded as a failed attempt
PasswordPath_countAll(name, password, t) ==
    LET chk == checkLockout(lockouts, name, t)
        dec == decryptKeystore(keystores, name, password)
    IN  IF ~chk.ok
        THEN [code |-> "ERR_WALLET_LOCKED", mnemonic |-> "", files |-> chk.files]
        ELSE IF dec.code # "OK"
        THEN [code |-> dec.code, mnemonic |-> "",
              files |-> recordFailedAttempt(chk.files, name, chk.record, t)]
        ELSE [code |-> "OK", mnemonic |-> dec.mnemonic,
              files |-> recordSuccess(chk.files, name)]

\* checkLockout, decryptKeystore, then recordFailedAttempt or recordSuccess:
\* the sequence both the unlock and the export command run at time t
PasswordPath(name, password, t) ==
    LET chk == checkLockout(lockouts, name, t)
        dec == decryptKeystore(keystores, name, password)
    IN  IF ~chk.ok
        THEN [code |-> "ERR_WALLET_LOCKED", mnemonic |-> "", files |-> chk.files]
        ELSE IF dec.code = "ERR_WRONG_PASSWORD"
        THEN [code |-> dec.code, mnemonic |-> "",
              files |-> recordFailedAttempt(chk.files, name, chk.record, t)]
        ELSE IF dec.code # "OK"
        THEN [code |-> dec.code, mnemonic |-> "", files |-> chk.files]
        ELSE [code |-> "OK", mnemonic |-> dec.mnemonic,
              files |-> recordSuccess(chk.files, name)]

\* the failure count of a lockout record starts over (the record is removed
\* after a success, or reset after its lock ran out)
Cleared(name, after) ==
    readLockoutRecord(after, name).failed_attempts
        < readLockoutRecord(lockouts, name).failed_attempts

\* the run of wrong-password unlock invocations, counted from a wallet
\* without failures
NextStreak(name, password) ==
    IF name \notin DOMAIN keystores \/ password = PasswordOf(name) THEN 0
    ELSE IF streak[name] > 0 \/ readLockoutRecord(lockouts, name).failed_attempts = 0
    THEN Min(streak[name] + 1, MAX_FAILED_ATTEMPTS + 1)
    ELSE 0

\* unlock command
Unlock(name, password, duration) ==
    LET r == PasswordPath(name, password, now)
    IN
    /\ IF password = "" \/ duration <= 0
       THEN /\ res' = Result("unlock", name, "ERR_INVALID_INPUT", "", NoToken, password)
            /\ UNCHANGED <<lockouts, sessions, tokenFiles, rng, issued, tampered, streak, resets>>
       ELSE
       /\ r.code = "OK" => rng < MaxRng
       /\ Cleared(name, r.files) => resets < MaxResets
       /\ resets' = IF Cleared(name, r.files) THEN resets + 1 ELSE resets
       /\ streak' = [streak EXCEPT ![name] = NextStreak(name, password)]
       /\ lockouts' = r.files
       /\ IF r.code # "OK"
          THEN /\ res' = Result("unlock", name, r.code, "", NoToken, password)
               /\ UNCHANGED <<sessions, tokenFiles, rng, issued, tampered>>
          ELSE /\ IssueSession(name, r.mnemonic, <<duration>>)
               /\ res' = Result("unlock", name, "OK", "",
                                 encodeToken(Draw(rng + 1, 0), Draw(rng + 1, 1)), password)
    /\ UNCHANGED <<now, impl, attempts, tested, mem, inflight, keystores>>

\* export command
Export(name, password, confirm) ==
    LET r == PasswordPath(name, password, now)
    IN
    /\ IF ~confirm
       THEN /\ res' = Result("export", name, "ERR_EXPORT_NOT_CONFIRMED", "", NoToken, password)
            /\ UNCHANGED <<lockouts, streak, resets>>
       ELSE IF password = ""
       THEN /\ res' = Result("export", name, "ERR_INVALID_INPUT", "", NoToken, password)
            /\ UNCHANGED <<lockouts, streak, resets>>
       ELSE
       /\ Cleared(name, r.files) => resets < MaxResets
       /\ resets' = IF Cleared(name, r.files) THEN resets + 1 ELSE resets
       /\ streak' = [streak EXCEPT ![name] = 0]
       /\ lockouts' = r.files
       /\ res' = Result("export", name, r.code, r.mnemonic, NoToken, password)
    /\ UNCHANGED <<now, impl, attempts, tested, mem, inflight, keystores, sessions, tokenFiles, rng, issued, tampered>>

\* variant: every failed validation deletes the session
ValidateSession_dropOnFailure(name, token) ==
    LET v == validateSession(impl, sessions, name, token, now)
    IN  /\ res' = Result("validate", name, v.code, v.mnemonic, token, "")
        /\ sessions' = IF v.code # "OK" THEN Remove(sessions, name) ELSE sessions
        /\ tokenFiles' = IF v.code # "OK" THEN Remove(tokenFiles, name) ELSE tokenFiles
        /\ tampered' = IF v.code # "OK" THEN [tampered EXCEPT ![name] = "none"] ELSE tampered
        /\ issued' = IF v.code # "OK" THEN [issued EXCEPT ![name] = NoIssue] ELSE issued
        /\ UNCHANGED <<now, resets, impl, attempts, tested, mem, inflight, keystores, lockouts, rng, streak>>

\* variant: a successful validation slides the expiry forward
ValidateSession_extend(name, token) ==
    LET v == validateSession(impl, sessions, name, token, now)
    IN  /\ res' = Result("validate", name, v.code, v.mnemonic, token, "")
        /\ sessions' = IF v.revoke THEN Remove(sessions, name)
                       ELSE IF v.code = "OK"
                       THEN [sessions EXCEPT ![name].expires_at =
                                now + (sessions[name].expires_at - sessions[name].created_at)]
                       ELSE sessions
        /\ tokenFiles' = IF v.revoke THEN Remove(tokenFiles, name) ELSE tokenFiles
        /\ tampered' = IF v.revoke THEN [tampered EXCEPT ![name] = "none"] ELSE tampered
        /\ issued' = IF v.revoke THEN [issued EXCEPT ![name] = NoIssue] ELSE issued
        /\ UNCHANGED <<now, resets, impl, attempts, tested, mem, inflight, keystores, lockouts, rng, streak>>

\* validateSession, as every token-authenticated command calls it
ValidateSession(name, token) ==
    LET v == validateSession(impl, sessions, name, token, now)
    IN  /\ res' = Result("validate", name, v.code, v.mnemonic, token, "")
        /\ sessions' = IF v.revoke THEN Remove(sessions, name) ELSE sessions
        /\ tokenFiles' = IF v.revoke THEN Remove(tokenFiles, name) ELSE tokenFiles
        /\ tampered' = IF v.revoke THEN [tampered EXCEPT ![name] = "none"] ELSE tampered
        /\ issued' = IF v.revoke THEN [issued EXCEPT ![name] = NoIssue] ELSE issued
        /\ UNCHANGED <<now, resets, impl, attempts, tested, mem, inflight, keystores, lockouts, rng, streak>>

\* variant: the lock command leaves the files in place
RevokeSession_keep(name) ==
    /\ res' = Result("revoke", name, "OK", "", NoToken, "")
    /\ UNCHANGED <<now, resets, impl, attempts, tested, mem, inflight, keystores, lockouts, sessions, tokenFiles, rng, issued,
                   tampered, streak>>

\* variant: revoking an absent session is an error
RevokeSession_absentFails(name) ==
    /\ sessions' = Remove(sessions, name)
    /\ issued' = [issued EXCEPT ![name] = NoIssue]
    /\ tokenFiles' = Remove(tokenFiles, name)
    /\ tampered' = [tampered EXCEPT ![name] = "none"]
    /\ res' = Result("revoke", name,
                     IF name \in DOMAIN sessions THEN "OK" ELSE "ERR_SESSION_NOT_FOUND",
                     "", NoToken, "")
    /\ UNCHANGED <<now, resets, impl, attempts, tested, mem, inflight, keystores, lockouts, rng, streak>>

\* lock command: revokeSession
RevokeSession(name) ==
    /\ sessions' = Remove(sessions, name)
    /\ issued' = [issued EXCEPT ![name] = NoIssue]
    /\ tokenFiles' = Remove(tokenFiles, name)
    /\ tampered' = [tampered EXCEPT ![name] = "none"]
    /\ res' = Result("revoke", name, "OK", "", NoToken, "")
    /\ UNCHANGED <<now, resets, impl, attempts, tested, mem, inflight, keystores, lockouts, rng, streak>>

\* the fields of a session record, and for each the values someone with write
\* access to the session directory may put in place of the value v it holds at
\* time t (a value of the same type, different from v)
SessionFields ==
    {"version", "wallet_name", "token_id", "hkdf_salt", "cipher.algorithm", "cipher.iv",
     "cipher.auth_tag", "cipher.ciphertext", "created_at", "expires_at", "hmac"}

OtherValues(rec, field, t) ==
    CASE field = "version" -> {2}
      [] field = "wallet_name" -> {"x"}
      [] field = "token_id" -> {Hex(Draw(0, 0))}
      [] field = "hkdf_salt" -> {Hex(Draw(0, 2))}
      [] field = "cipher.algorithm" -> {"aes-128-gcm"}
      [] field = "cipher.iv" -> {Hex(Draw(0, 3))}
      [] field = "cipher.auth_tag" -> {Hex([rec.cipher.auth_tag.hex EXCEPT !.iv = Draw(0, 3)])}
      [] field = "cipher.ciphertext" -> {Hex([rec.cipher.ciphertext.hex EXCEPT !.pt = "x"])}
      [] field = "created_at" -> {rec.created_at + 1}
      [] field = "expires_at" ->
            {rec.expires_at + 1000, NaN} \cup (IF t > 0 THEN {t - 1} ELSE {})
      [] field = "hmac" -> {Hex([rec.hmac.hex EXCEPT !.key = Draw(0, 1)])}

WithField(rec, field, v) ==
    CASE field = "version" -> [rec EXCEPT !.version = v]
      [] field = "wallet_name" -> [rec EXCEPT !.wallet_name = v]
      [] field = "token_id" -> [rec EXCEPT !.token_id = v]
      [] field = "hkdf_salt" -> [rec EXCEPT !.hkdf_salt = v]
      [] field = "cipher.algorithm" -> [rec EXCEPT !.cipher.algorithm = v]
      [] field = "cipher.iv" -> [rec EXCEPT !.cipher.iv = v]
      [] field = "cipher.auth_tag" -> [rec EXCEPT !.cipher.auth_tag = v]
      [] field = "cipher.ciphertext" -> [rec EXCEPT !.cipher.ciphertext = v]
      [] field = "created_at" -> [rec EXCEPT !.created_at = v]
      [] field = "expires_at" -> [rec EXCEPT !.expires_at = v]
      [] field = "hmac" -> [rec EXCEPT !.hmac = v]

\* sessions/<name>.json is rewritten from outside with one field changed;
\* validateSession reads whatever the file then holds
Tamper(name, field) ==
    /\ name \in DOMAIN sessions
    /\ tampered[name] = "none"
    /\ \E v \in OtherValues(sessions[name], field, now) :
            sessions' = Put(sessions, name, WithField(sessions[name], field, v))
    /\ tampered' = [tampered EXCEPT ![name] = field]
    /\ res' = Result("tamper", name, "OK", "", NoToken, "")
    /\ UNCHANGED <<now, resets, impl, attempts, tested, mem, inflight, keystores, lockouts, tokenFiles, rng, issued, streak>>

\* the tokens a caller may present: every pairing of a token id and a token
\* secret drawn so far (so every token ever issued, and each of them with a
\* secret or an id that is not its own), or of values never drawn, well-formed
\* or not
PresentedTokens ==
    {encodeToken(Draw(i, 0), Draw(s, 1)) : i \in 0..rng, s \in 0..rng}
    \cup {[encodeToken(Draw(rng, 0), Draw(rng, 1)) EXCEPT !.prefix = "tok_"],
          [encodeToken(Draw(rng, 0), Draw(rng, 1)) EXCEPT !.len = TOKEN_ID_SIZE]}

Next ==
    \/ \E t \in Instants : Tick(t)
    \/ \E n \in Names, k \in KeystoreInputs : CreateKeystore(n, k[1], k[2])
    \/ \E n \in Names, m \in Secrets, d \in ApiDurations : CreateSession(n, m, d)
    \/ \E n \in Names, p \in Passwords, d \in UnlockDurations : Unlock(n, p, d)
    \/ \E n \in Names, p \in Passwords, c \in BOOLEAN : Export(n, p, c)
    \/ \E n \in Names, t \in PresentedTokens : ValidateSession(n, t)
    \/ \E n \in Names : RevokeSession(n)

\* the session engine of part_013 (integrity tag over the whole record)
Init == InitWith("part_013")

\* the session engine of src/core/session.ts (integrity tag over the token id,
\* token also written to a file)
InitSessionTs == InitWith("session_ts")

Spec == Init /\ [][Next]_vars

\* the session token engine alone: issue, validate, revoke and the clock
NextSession ==
    \/ \E t \in SessionInstants : Tick(t)
    \/ \E n \in Names, m \in Secrets, d \in ApiDurations : CreateSession(n, m, d)
    \/ \E n \in Names, t \in PresentedTokens : ValidateSession(n, t)
    \/ \E n \in Names : RevokeSession(n)

SpecSession == Init /\ [][NextSession]_vars

SpecSessionTs == InitSessionTs /\ [][NextSession]_vars

\* the session token engine with a session directory others can write to
NextTamper ==
    \/ \E t \in SessionInstants : Tick(t)
    \/ \E n \in Names, m \in Secrets, d \in ApiDurations : CreateSession(n, m, d)
    \/ \E n \in Names, t \in PresentedTokens : ValidateSession(n, t)
    \/ \E n \in Names : RevokeSession(n)
    \/ \E n \in Names, f \in SessionFields : Tamper(n, f)

SpecTamper == Init /\ [][NextTamper]_vars

SpecTamperTs == InitSessionTs /\ [][NextTamper]_vars

\* the tokens the holder of a wallet passes to a command: the one the last
\* unlock printed (none before the first), one that was never issued, and one
\* with a wrong prefix
HolderTokens(name) ==
    {issued[name].token,
     encodeToken(Draw(0, 0), Draw(0, 1)),
     [encodeToken(Draw(0, 0), Draw(0, 1)) EXCEPT !.prefix = "tok_"]}

\* the commands of the program, one invocation at a time: init / import,
\* unlock (for one second, so that the session runs out while a backoff is
\* waited for), export, any token-authenticated command, lock
NextCommands ==
    \/ \E t \in LockInstants : Tick(t)
    \/ \E n \in Names : CreateKeystore(n, "S1", "P1")
    \/ \E n \in Names, p \in Passwords, d \in {0, 1} : Unlock(n, p, d)
    \/ \E n \in Names, p \in Passwords : Export(n, p, TRUE)
    \/ \E n \in Names : \E t \in HolderTokens(n) : ValidateSession(n, t)
    \/ \E n \in Names : RevokeSession(n)

SpecCommands == Init /\ [][NextCommands]_vars

\* the password path: wallet creation, unlock, export and the clock
NextLockout ==
    \/ \E t \in LockInstants : Tick(t)
    \/ \E n \in Names, k \in KeystoreInputs : CreateKeystore(n, k[1], k[2])
    \/ \E n \in Names, p \in Passwords, d \in UnlockDurations : Unlock(n, p, d)
    \/ \E n \in Names, p \in Passwords, c \in BOOLEAN : Export(n, p, c)

SpecLockout == Init /\ [][NextLockout]_vars

\* withSecretBuffer(secret, fn) enters its try block and calls fn
EnterScope(via, secret, f) ==
    /\ mem.pc = "idle"
    /\ mem' = [NoScope EXCEPT !.pc = "in_fn", !.via = via, !.given = secret,
                              !.buf = secret, !.fn = f]
    /\ res' = Result(via, "", "OK", "", NoToken, "")
    /\ UNCHANGED <<now, resets, impl, attempts, tested, inflight, keystores, lockouts, sessions, tokenFiles,
                   rng, issued, tampered, streak>>

WithSecretBuffer(secret, f) == EnterScope("withSecretBuffer", secret, f)

\* withSecret(secret, fn): the string is copied into a new buffer, which is
\* then guarded
WithSecret(str, f) == EnterScope("withSecret", BufferFrom(str), f)

\* fn runs on the buffer and settles: it returns what it read, throws,
\* returns a promise that rejects, or writes into the buffer and returns
FnSettles ==
    /\ mem.pc = "in_fn"
    /\ mem' = [mem EXCEPT
                 !.pc = "finally",
                 !.buf = IF mem.fn = "writes"
                         THEN [i \in DOMAIN mem.buf |-> 255]
                         ELSE mem.buf,
                 !.pending = IF mem.fn \in {"throws", "rejects"}
                             THEN [kind |-> "throw", value |-> <<>>]
                             ELSE [kind |-> "return", value |-> mem.buf]]
    /\ res' = Result("fn", "", "OK", "", NoToken, "")
    /\ UNCHANGED <<now, resets, impl, attempts, tested, inflight, keystores, lockouts, sessions, tokenFiles,
                   rng, issued, tampered, streak>>

\* the finally block runs clearBuffer, then the pending return or throw
\* leaves withSecretBuffer
LeaveScope ==
    /\ mem.pc = "finally"
    /\ mem' = [mem EXCEPT !.pc = "done", !.buf = clearBuffer(mem.buf),
                          !.out = mem.pending]
    /\ res' = Result(mem.via, "",
                     IF mem.pending.kind = "throw" THEN "ERR_INTERNAL" ELSE "OK",
                     "", NoToken, "")
    /\ UNCHANGED <<now, resets, impl, attempts, tested, inflight, keystores, lockouts, sessions, tokenFiles,
                   rng, issued, tampered, streak>>

\* the caller goes on and the buffer goes out of scope
DropScope ==
    /\ mem.pc = "done"
    /\ mem' = NoScope
    /\ res' = Result("drop", "", "OK", "", NoToken, "")
    /\ UNCHANGED <<now, resets, impl, attempts, tested, inflight, keystores, lockouts, sessions, tokenFiles,
                   rng, issued, tampered, streak>>

\* the memory guard called with every buffer, string and operation
NextMemory ==
    \/ \E b \in SeqsUpTo(Bytes, MaxLen), f \in Fns : WithSecretBuffer(b, f)
    \/ \E str \in SeqsUpTo(Chars, MaxLen), f \in Fns : WithSecret(str, f)
    \/ FnSettles
    \/ LeaveScope
    \/ DropScope

SpecMemory == Init /\ [][NextMemory]_vars

\* what a keystore file reads as after damage to one field: the tag cut to
\* its first bytes, or the iv emptied
CutTagSize == 2

Damaged(rec, field) ==
    CASE field = "cipher.auth_tag" ->
            [rec EXCEPT !.cipher.auth_tag =
                            [hex |-> rec.cipher.auth_tag.hex, len |-> CutTagSize]]
      [] field = "cipher.iv" -> [rec EXCEPT !.cipher.iv = Hex(Null)]

\* a keystore file is damaged on disk (truncated or edited) and still parses
DamageKeystore(name, field) ==
    /\ name \in DOMAIN keystores
    /\ keystores[name] # Damaged(keystores[name], field)
    /\ keystores' = [keystores EXCEPT ![name] = Damaged(keystores[name], field)]
    /\ res' = Result("damage", name, "OK", "", NoToken, "")
    /\ UNCHANGED <<now, resets, impl, attempts, tested, mem, inflight, lockouts, sessions, tokenFiles, rng, issued,
                   tampered, streak>>

\* some process other than p is between its checkLockout and its record on name
OthersInFlight(p, name, att) ==
    \E q \in Procs \ {p} : att[q].pc = "checked" /\ att[q].name = name

\* variant: the command goes on to decrypt whatever checkLockout said
PathCheck_proceeds(p, op, name, password) ==
    LET chk == checkLockout(lockouts, name, now)
        reset == chk.files # lockouts
    IN  /\ attempts[p].pc = "idle"
        /\ reset => resets < MaxResets
        /\ resets' = IF reset THEN resets + 1 ELSE resets
        /\ lockouts' = chk.files
        /\ attempts' = [attempts EXCEPT ![p] =
                           [pc |-> "checked", op |-> op, name |-> name,
                            password |-> password, record |-> chk.record]]
        /\ tested' = [tested EXCEPT ![name] =
                         [n |-> IF reset THEN 0 ELSE @.n,
                          overlap |-> IF reset THEN OthersInFlight(p, name, attempts)
                                      ELSE @.overlap \/ OthersInFlight(p, name, attempts)]]
        /\ res' = Result("check", name, "OK", "", NoToken, password)
        /\ UNCHANGED <<now, impl, inflight, mem, keystores, sessions, tokenFiles, rng,
                       issued, tampered, streak>>

\* unlock or export up to the return of checkLockout: the command throws
\* ERR_WALLET_LOCKED, or holds the record it was given and goes on to
\* decryptKeystore, which awaits the key derivation and lets others run
PathCheck(p, op, name, password) ==
    LET chk == checkLockout(lockouts, name, now)
        reset == chk.files # lockouts
    IN  /\ attempts[p].pc = "idle"
        /\ reset => resets < MaxResets
        /\ resets' = IF reset THEN resets + 1 ELSE resets
        /\ lockouts' = chk.files
        /\ attempts' = IF chk.ok
                       THEN [attempts EXCEPT ![p] =
                                [pc |-> "checked", op |-> op, name |-> name,
                                 password |-> password, record |-> chk.record]]
                       ELSE attempts
        /\ tested' = [tested EXCEPT ![name] =
                         [n |-> IF reset THEN 0 ELSE @.n,
                          overlap |-> IF reset THEN OthersInFlight(p, name, attempts)
                                      ELSE @.overlap
                                             \/ (chk.ok /\ OthersInFlight(p, name, attempts))]]
        /\ res' = IF chk.ok THEN Result("check", name, "OK", "", NoToken, password)
                  ELSE Result(op, name, "ERR_WALLET_LOCKED", "", NoToken, password)
        /\ UNCHANGED <<now, impl, inflight, mem, keystores, sessions, tokenFiles, rng,
                       issued, tampered, streak>>

\* the rest of the command: decryptKeystore, then recordFailedAttempt with
\* the record checkLockout returned, or recordSuccess (and, in unlock,
\* createSession)
PathFinish(p) ==
    LET c == attempts[p]
        dec == decryptKeystore(keystores, c.name, c.password)
    IN  /\ c.pc = "checked"
        /\ attempts' = [attempts EXCEPT ![p] = IdleAttempt]
        /\ IF dec.code = "ERR_WRONG_PASSWORD"
           THEN /\ tested[c.name].n < MaxTested
                /\ lockouts' = recordFailedAttempt(lockouts, c.name, c.record, now)
                /\ tested' = [tested EXCEPT ![c.name].n = @ + 1]
                /\ res' = Result(c.op, c.name, dec.code, "", NoToken, c.password)
                /\ UNCHANGED <<resets, sessions, tokenFiles, rng, issued, tampered>>
           ELSE IF dec.code # "OK"
           THEN /\ res' = Result(c.op, c.name, dec.code, "", NoToken, c.password)
                /\ UNCHANGED <<lockouts, tested, resets, sessions, tokenFiles, rng, issued,
                               tampered>>
           ELSE /\ c.name \in DOMAIN lockouts => resets < MaxResets
                /\ resets' = IF c.name \in DOMAIN lockouts THEN resets + 1 ELSE resets
                /\ lockouts' = recordSuccess(lockouts, c.name)
                /\ tested' = [tested EXCEPT ![c.name] =
                                 [n |-> 0, overlap |-> OthersInFlight(p, c.name, attempts)]]
                /\ IF c.op = "unlock"
                   THEN /\ rng < MaxRng
                        /\ IssueSession(c.name, dec.mnemonic, <<DEFAULT_DURATION>>)
                        /\ res' = Result(c.op, c.name, "OK", "",
                                         encodeToken(Draw(rng + 1, 0), Draw(rng + 1, 1)),
                                         c.password)
                   ELSE /\ res' = Result(c.op, c.name, "OK", dec.mnemonic, NoToken,
                                         c.password)
                        /\ UNCHANGED <<sessions, tokenFiles, rng, issued, tampered>>
        /\ UNCHANGED <<now, impl, inflight, mem, keystores, streak>>

\* the command each process runs
CommandOf(p) == IF p = 1 THEN "unlock" ELSE "export"

\* the first instants at which a lock or a backoff on record no longer holds
RetryInstants == {t \in LockInstants : t - 1 \in LockInstants}

\* no process is inside unlock or export
AllIdle == \A q \in Procs : attempts[q].pc = "idle"

\* unlock and export run by two processes at once on one wallet; an
\* invocation is over before the next instant at which a retry is let through
NextInterleave ==
    \/ \E t \in RetryInstants : AllIdle /\ Tick(t)
    \/ \E n \in Names : CreateKeystore(n, "S1", "P1")
    \/ \E p \in Procs, n \in Names, pw \in Passwords : PathCheck(p, CommandOf(p), n, pw)
    \/ \E p \in Procs : PathFinish(p)

SpecInterleave == Init /\ [][NextInterleave]_vars

\* init with every secret under every password, and export to read it back
NextKeystore ==
    \/ \E t \in LockInstants : Tick(t)
    \/ \E n \in Names, m \in Secrets, p \in Passwords : CreateKeystore(n, m, p)
    \/ \E n \in Names, p \in Passwords : Export(n, p, TRUE)

SpecKeystore == Init /\ [][NextKeystore]_vars

\* the password path over keystore files that may be damaged
NextDamage ==
    \/ \E t \in LockInstants : Tick(t)
    \/ \E n \in Names, k \in KeystoreInputs : CreateKeystore(n, k[1], k[2])
    \/ \E n \in Names, f \in {"cipher.auth_tag", "cipher.iv"} : DamageKeystore(n, f)
    \/ \E n \in Names, p \in Passwords : Unlock(n, p, 1)
    \/ \E n \in Names, p \in Passwords : Export(n, p, TRUE)

SpecDamage == Init /\ [][NextDamage]_vars

\* init run by two processes at once on one wallet directory, each of them
\* once, and export to read back what is stored
NextRace ==
    \/ \E t \in LockInstants : Tick(t)
    \/ \E p \in Procs, n \in Names, k \in KeystoreInputs : CreateCheck(p, n, k[1], k[2])
    \/ \E p \in Procs : CreateWrite(p)
    \/ \E n \in Names, p \in Passwords : Export(n, p, TRUE)

SpecRace == Init /\ [][NextRace]_vars


----------------------------------------------------------------------------
(* Properties of the session token engine *)

\* C1: validateSession returns a secret only if a session record for that
\* wallet exists, the clock is not past its expires_at, and the presented token
\* is exactly the token returned by the createSession that wrote the record;
\* the secret returned is the one given to that createSession.  In particular
\* a token with the right id and another secret yields nothing.
C1_SecretOnlyForIssuedToken ==
    (res.op = "validate" /\ (res.code = "OK" \/ res.value # ""))
        => /\ res.code = "OK"
           /\ res.name \in DOMAIN sessions
           /\ now <= sessions[res.name].expires_at
           /\ res.token = issued[res.name].token
           /\ res.value = issued[res.name].secret
           /\ res.value \in Secrets

\* a second session was issued later than the first and its token validated
C1_Witness ==
    /\ res.op = "validate"
    /\ res.code = "OK"
    /\ rng = 2
    /\ now > 0

\* C2: for a live session, once any single field of the persisted session
\* record has been changed, validateSession with the genuine token fails with
\* session-invalid (and returns nothing).
C2_TamperDetected ==
    [][\A n \in Names :
         (/\ n \in DOMAIN sessions
          /\ tampered[n] # "none"
          /\ now <= issued[n].expires
          /\ res'.op = "validate"
          /\ res'.name = n
          /\ res'.token = issued[n].token)
            => (res'.code = "ERR_SESSION_INVALID" /\ res'.value = "")
      ]_vars

\* C3: expiry is enforced lazily, at validation.  A validateSession made
\* when now > expires_at fails with session-expired and deletes the record; one
\* made at or before expires_at is never rejected as expired and leaves the
\* record; with no record the outcome is session-not-found; the passing of
\* time alone deletes nothing.
C3_LazyExpiry ==
    [][/\ res'.op = "tick" => sessions' = sessions
       /\ res'.op = "validate" =>
            LET n == res'.name
            IN  /\ (n \in DOMAIN sessions /\ now > sessions[n].expires_at)
                       => (res'.code = "ERR_SESSION_EXPIRED" /\ n \notin DOMAIN sessions')
                /\ (n \in DOMAIN sessions /\ now <= sessions[n].expires_at)
                       => (res'.code # "ERR_SESSION_EXPIRED" /\ sessions' = sessions)
                /\ n \notin DOMAIN sessions
                       => (res'.code = "ERR_SESSION_NOT_FOUND" /\ sessions' = sessions)
      ]_vars

\* a validation found the session expired and removed it
C3_Witness ==
    /\ res.op = "validate"
    /\ res.code = "ERR_SESSION_EXPIRED"
    /\ res.name \notin DOMAIN sessions
    /\ now > 0

\* C11: after revokeSession for a wallet there is no session record, and
\* validateSession fails with session-not-found for every token, the one that
\* was valid before the revoke included, as long as no record is there; only
\* issuing a new session (createSession, or a successful unlock) brings a
\* record back.
C11_Revocation ==
    [][\A n \in Names :
         /\ (res'.op = "revoke" /\ res'.name = n) => n \notin DOMAIN sessions'
         /\ (n \notin DOMAIN sessions /\ res'.op = "validate" /\ res'.name = n)
                => (res'.code = "ERR_SESSION_NOT_FOUND" /\ res'.value = ""
                    /\ n \notin DOMAIN sessions')
         /\ (n \notin DOMAIN sessions /\ n \in DOMAIN sessions')
                => (res'.op \in {"issue", "unlock"} /\ res'.code = "OK")
      ]_vars

\* the token of the first session is refused as not-found; no time has passed,
\* so the record was removed by a revoke and not by expiry
C11_Witness ==
    /\ res.op = "validate"
    /\ res.code = "ERR_SESSION_NOT_FOUND"
    /\ res.token = encodeToken(Draw(1, 0), Draw(1, 1))
    /\ rng = 1
    /\ now = 0
    /\ res.name \notin DOMAIN sessions

C30_ValidateReadOnly ==
    [][/\ (res'.op = "validate" /\ res'.code = "OK")
          => /\ sessions' = sessions
             /\ tokenFiles' = tokenFiles
             /\ \A t \in {now, sessions[res'.name].expires_at} :
                    LET again == validateSession(impl, sessions', res'.name, res'.token, t)
                    IN  /\ again.code = "OK"
                        /\ again.mnemonic = res'.value
                        /\ ~again.revoke
       /\ \A n \in DOMAIN sessions \cap DOMAIN sessions' :
            sessions'[n].expires_at # sessions[n].expires_at
            => /\ res'.op = "issue"
               /\ res'.name = n
      ]_vars

\* a token validated at the last instant of its session, some time after it
\* was issued, and the record is the one createSession wrote
C30_Witness ==
    /\ res.op = "validate"
    /\ res.code = "OK"
    /\ res.name \in DOMAIN sessions
    /\ now = sessions[res.name].expires_at
    /\ now > sessions[res.name].created_at
    /\ sessions[res.name].expires_at = issued[res.name].expires
    /\ res.token = issued[res.name].token

\* C12: validateSession called with the token createSession returned,
\* at or before expires_at and with the record that createSession wrote still
\* in place (no revoke, no re-issue), returns exactly the secret that was
\* issued, for every secret and duration.
C12_RoundTrip ==
    [][\A n \in Names :
         (/\ n \in DOMAIN sessions
          /\ now <= sessions[n].expires_at
          /\ res'.op = "validate"
          /\ res'.name = n
          /\ res'.token = issued[n].token)
            => /\ res'.code = "OK"
               /\ res'.value = issued[n].secret
               /\ res'.value \in Secrets
               /\ sessions' = sessions
      ]_vars

\* the token of a one-second session validated in its last millisecond
C12_Witness ==
    /\ res.op = "validate"
    /\ res.code = "OK"
    /\ res.name \in DOMAIN sessions
    /\ issued[res.name].duration = <<1>>
    /\ now = sessions[res.name].expires_at
    /\ res.value = issued[res.name].secret

\* C13 as stated: validateSession decodes the token before consulting
\* storage, so a token that lacks the prefix or does not decode to exactly 48
\* bytes fails with session-invalid in every state (no record, live record,
\* expired record) and touches nothing.
C13_MalformedAlwaysInvalid ==
    [][(/\ res'.op = "validate"
        /\ (res'.token.prefix # "wlt_" \/ res'.token.len # 48))
            => (res'.code = "ERR_SESSION_INVALID" /\ sessions' = sessions)
      ]_vars

\* C13 amended: validateSession consults storage before it decodes the
\* token.  A token that lacks the prefix or does not decode to exactly 48
\* bytes never yields a secret; it fails with session-not-found when there is
\* no record, with session-expired (and the record is deleted) when the record
\* is past expires_at, and with session-invalid only when a record is there
\* and not expired.
C13_MalformedAfterStorage ==
    [][\A n \in Names :
         (/\ res'.op = "validate"
          /\ res'.name = n
          /\ (res'.token.prefix # "wlt_" \/ res'.token.len # 48))
            => /\ res'.value = ""
               /\ n \notin DOMAIN sessions
                      => (res'.code = "ERR_SESSION_NOT_FOUND" /\ sessions' = sessions)
               /\ (n \in DOMAIN sessions /\ now > sessions[n].expires_at)
                      => (res'.code = "ERR_SESSION_EXPIRED" /\ n \notin DOMAIN sessions')
               /\ (n \in DOMAIN sessions /\ now <= sessions[n].expires_at)
                      => (res'.code = "ERR_SESSION_INVALID" /\ sessions' = sessions)
      ]_vars

\* a token of 16 bytes presented after a session ran out is answered with
\* session-expired and the record is gone
C13_Witness ==
    /\ res.op = "validate"
    /\ res.token.prefix = "wlt_"
    /\ res.token.len = 16
    /\ res.code = "ERR_SESSION_EXPIRED"
    /\ res.name \notin DOMAIN sessions
    /\ now > 0

----------------------------------------------------------------------------
(* Properties of the lockout guard and the password path *)

\* C4: when recordFailedAttempt raises the counter to 5 it sets
\* locked_until to that moment plus 15 minutes, and every password-path
\* invocation (unlock or export, so every checkLockout) made before
\* locked_until fails with ERR_WALLET_LOCKED whichever password is supplied,
\* changing neither the record nor the sessions.
C4_LockoutThreshold ==
    [][\A n \in Names :
         LET pre == readLockoutRecord(lockouts, n)
             post == readLockoutRecord(lockouts', n)
         IN  /\ (post.failed_attempts = 5 /\ pre.failed_attempts # 5)
                    => post.locked_until = now + 15 * 60 * 1000
             /\ (/\ pre.locked_until # Null
                 /\ now < pre.locked_until
                 /\ res'.op \in {"unlock", "export"}
                 /\ res'.name = n
                 /\ res'.code \notin {"ERR_INVALID_INPUT", "ERR_EXPORT_NOT_CONFIRMED"})
                    => /\ res'.code = "ERR_WALLET_LOCKED"
                       /\ res'.value = ""
                       /\ lockouts' = lockouts
                       /\ sessions' = sessions
      ]_vars

\* an export with the right password is refused one millisecond before the
\* lock runs out
C4_Witness ==
    /\ res.op = "export"
    /\ res.code = "ERR_WALLET_LOCKED"
    /\ res.name \in DOMAIN lockouts
    /\ res.name \in DOMAIN keystores
    /\ res.pw = PasswordOf(res.name)
    /\ lockouts[res.name].failed_attempts = 5
    /\ lockouts[res.name].locked_until = lockouts[res.name].last_failed_at + 900000
    /\ now = lockouts[res.name].locked_until - 1

\* C5 as stated: for a wallet with no prior failures, after five unlock
\* invocations with a wrong password, made at whatever times, a sixth unlock
\* invocation with the correct password fails with ERR_WALLET_LOCKED and
\* issues no session.
C5_SixthAlwaysLocked ==
    [][\A n \in Names :
         (/\ streak[n] = 5
          /\ res'.op = "unlock"
          /\ res'.name = n
          /\ res'.pw = PasswordOf(n)
          /\ res'.code # "ERR_INVALID_INPUT")
            => (res'.code = "ERR_WALLET_LOCKED" /\ sessions' = sessions)
      ]_vars

\* C5 amended: for a wallet with no prior failures, after five unlock
\* invocations with a wrong password each of which was recorded as a failure
\* (none was refused by the backoff), a sixth unlock invocation with the
\* correct password made before locked_until fails with ERR_WALLET_LOCKED and
\* issues no session.
C5_SixthLockedWhenFiveRecorded ==
    [][\A n \in Names :
         (/\ streak[n] = 5
          /\ readLockoutRecord(lockouts, n).failed_attempts = 5
          /\ now < readLockoutRecord(lockouts, n).locked_until
          /\ res'.op = "unlock"
          /\ res'.name = n
          /\ res'.pw = PasswordOf(n)
          /\ res'.code # "ERR_INVALID_INPUT")
            => /\ res'.code = "ERR_WALLET_LOCKED"
               /\ sessions' = sessions
               /\ issued' = issued
      ]_vars

\* the unlock with the right password made in the same instant as the fifth
\* recorded failure is refused and leaves no session
C5_Witness ==
    /\ res.op = "unlock"
    /\ res.code = "ERR_WALLET_LOCKED"
    /\ res.name \in DOMAIN lockouts
    /\ res.name \in DOMAIN keystores
    /\ res.pw = PasswordOf(res.name)
    /\ lockouts[res.name].failed_attempts = 5
    /\ lockouts[res.name].last_failed_at = now
    /\ res.name \notin DOMAIN sessions

\* C6: with k recorded failures (1 <= k < 5) and no full lock, the
\* checkLockout of a password-path invocation fails with ERR_WALLET_LOCKED at
\* every time strictly before last_failed_at + 1 s * 2^(k-1), and passes at
\* every time at or after it.
C6_BackoffTiming ==
    [][\A n \in Names :
         LET pre == readLockoutRecord(lockouts, n)
         IN  (/\ pre.failed_attempts \in 1..4
              /\ pre.locked_until = Null
              /\ res'.op \in {"unlock", "export"}
              /\ res'.name = n
              /\ res'.code \notin {"ERR_INVALID_INPUT", "ERR_EXPORT_NOT_CONFIRMED"})
                => (res'.code = "ERR_WALLET_LOCKED"
                        <=> now < pre.last_failed_at + 1000 * 2 ^ (pre.failed_attempts - 1))
      ]_vars

\* with three recorded failures an unlock is refused one millisecond before
\* the four seconds are over
C6_Witness ==
    /\ res.op = "unlock"
    /\ res.code = "ERR_WALLET_LOCKED"
    /\ res.name \in DOMAIN lockouts
    /\ lockouts[res.name].failed_attempts = 3
    /\ lockouts[res.name].locked_until = Null
    /\ now = lockouts[res.name].last_failed_at + 4000 - 1

\* C7: every persisted lockout record is CLEAR (counter 0, no lock),
\* BACKOFF(n) with 1 <= n < 5 and no lock, or LOCKED (counter 5, locked_until
\* set); locked_until is never set while the counter is below 5 and the
\* counter never exceeds 5.
C7_LockoutRecordStates ==
    \A n \in DOMAIN lockouts :
        LET r == lockouts[n]
        IN  /\ r.failed_attempts \in 0..5
            /\ r.failed_attempts < 5 => r.locked_until = Null
            /\ r.failed_attempts = 5 => r.locked_until # Null
            /\ r.failed_attempts = 0 => r.last_failed_at = Null
            /\ r.failed_attempts > 0 => r.last_failed_at # Null

\* a record in state LOCKED, reached a second time after the first lock ran out
C7_Witness ==
    \E n \in DOMAIN lockouts :
        /\ lockouts[n].failed_attempts = 5
        /\ lockouts[n].locked_until # Null
        /\ resets >= 1

\* C8: recordSuccess removes the lockout record whatever state it was in,
\* so after a successful unlock (or export) there is no record, and the next
\* wrong-password unlock fails with ERR_WRONG_PASSWORD, not ERR_WALLET_LOCKED,
\* and is recorded as failure number one.
C8_SuccessClears ==
    [][\A n \in Names :
         /\ (res'.op \in {"unlock", "export"} /\ res'.name = n /\ res'.code = "OK")
                => n \notin DOMAIN lockouts'
         /\ (/\ n \notin DOMAIN lockouts
             /\ n \in DOMAIN keystores
             /\ res'.op = "unlock"
             /\ res'.name = n
             /\ res'.pw # PasswordOf(n)
             /\ res'.code # "ERR_INVALID_INPUT")
                => /\ res'.code = "ERR_WRONG_PASSWORD"
                   /\ n \in DOMAIN lockouts'
                   /\ lockouts'[n].failed_attempts = 1
                   /\ lockouts'[n].locked_until = Null
      ]_vars

\* a wrong-password unlock counted as failure one, after a successful unlock
\* that followed earlier failures
C8_Witness ==
    /\ res.op = "unlock"
    /\ res.code = "ERR_WRONG_PASSWORD"
    /\ res.name \in DOMAIN lockouts
    /\ lockouts[res.name].failed_attempts = 1
    /\ res.name \in DOMAIN sessions
    /\ resets >= 1

\* C24: revokeSession is idempotent.  It always succeeds and leaves no
\* session record for the name; when there was none it changes no file; and a
\* second call right after a first changes nothing more.
C24_RevokeIdempotent ==
    [][\A n \in Names :
         (res'.op = "revoke" /\ res'.name = n)
         => /\ res'.code = "OK"
            /\ n \notin DOMAIN sessions'
            /\ \A m \in DOMAIN sessions \ {n} :
                 m \in DOMAIN sessions' /\ sessions'[m] = sessions[m]
            /\ keystores' = keystores
            /\ lockouts' = lockouts
            /\ (n \notin DOMAIN sessions
                  => sessions' = sessions /\ tokenFiles' = tokenFiles)
            /\ ((res.op = "revoke" /\ res.name = n)
                  => sessions' = sessions /\ tokenFiles' = tokenFiles)
      ]_vars

\* a revoke, after a session had been issued, ended OK with no session record
\* and no token file left
C24_Witness ==
    /\ res.op = "revoke"
    /\ res.code = "OK"
    /\ res.name \notin DOMAIN sessions
    /\ rng >= 1
    /\ issued[res.name] = NoIssue
    /\ tokenFiles = <<>>

\* C20: on every exit of validateSession after the token is decoded (success,
\* identifier mismatch, tag mismatch, decryption failure) the decoded token
\* id, the decoded token secret, the session key and the recomputed tag have
\* all been overwritten with zeros: no such buffer is left as it was.
C20_BuffersWiped ==
    [][(/\ res'.op = "validate"
        /\ res'.name \in DOMAIN sessions
        /\ ~SessionExpired(sessions[res'.name].expires_at, now)
        /\ decodeToken(res'.token).ok)
       => validateSession(impl, sessions, res'.name, res'.token, now).left = {}
      ]_vars

\* C21: when createSession finishes, the token-secret buffer generated for
\* that issuance has been overwritten with zeros: no issuance leaves it as it
\* was.
C21_TokenSecretWiped ==
    \A n \in Names :
        issued[n].token # NoToken => "tokenSecret" \notin issued[n].left

----------------------------------------------------------------------------
(* Properties of the memory guard *)

\* C22: withSecretBuffer and withSecret leave the guarded buffer all zeros
\* (and of its length) when they complete, whether the operation returned or
\* threw, and what the operation returned or threw is what the caller gets.
C22_GuardWipes ==
    mem.pc = "done"
    => /\ AllZero(mem.buf)
       /\ Len(mem.buf) = Len(mem.given)
       /\ mem.out = mem.pending
       /\ mem.fn \in {"throws", "rejects"} => mem.out.kind = "throw"
       /\ mem.fn \in {"returns", "writes"} => mem.out.kind = "return"
       /\ mem.fn = "returns" => mem.out.value = mem.given

\* withSecret completed after an operation that threw, on a string of two
\* characters one of which takes two bytes
C22_Witness ==
    /\ mem.pc = "done"
    /\ mem.via = "withSecret"
    /\ mem.fn = "throws"
    /\ mem.out.kind = "throw"
    /\ mem.given = <<65, 195, 169>>
    /\ mem.buf = <<0, 0, 0>>

\* C27: in unlock and in export the keystore is decrypted only after
\* checkLockout returned without error in that invocation.  An invocation
\* goes on to decrypt only if its check passed at that instant, every
\* decryption belongs to an invocation that passed its check, and when the
\* check fails the command ends there: nothing is decrypted, no secret is put
\* out and no session is issued.
C27_CheckBeforeDecrypt ==
    [][/\ \A p \in Procs :
            (attempts[p].pc = "idle" /\ attempts'[p].pc = "checked")
            => /\ checkLockout(lockouts, attempts'[p].name, now).ok
               /\ attempts'[p].record = checkLockout(lockouts, attempts'[p].name, now).record
               /\ res'.op = "check"
       /\ (res'.op \in {"unlock", "export"} /\ res'.code # "ERR_WALLET_LOCKED")
            => \E p \in Procs :
                 /\ attempts[p].pc = "checked"
                 /\ attempts'[p].pc = "idle"
                 /\ attempts[p].name = res'.name
                 /\ attempts[p].password = res'.pw
       /\ (res'.op \in {"unlock", "export"} /\ res'.code = "ERR_WALLET_LOCKED")
            => /\ ~checkLockout(lockouts, res'.name, now).ok
               /\ attempts' = attempts
               /\ tested'[res'.name].n = tested[res'.name].n
               /\ res'.value = ""
               /\ res'.token = NoToken
               /\ sessions' = sessions
               /\ issued' = issued
               /\ rng' = rng
      ]_vars

\* an unlock with the right password was refused by the check during a full
\* lock: nothing was decrypted and there is no session
C27_Witness ==
    /\ res.op = "unlock"
    /\ res.code = "ERR_WALLET_LOCKED"
    /\ res.name \in DOMAIN keystores
    /\ res.pw = PasswordOf(res.name)
    /\ lockouts[res.name].locked_until # Null
    /\ now < lockouts[res.name].locked_until
    /\ attempts[1].pc = "idle"
    /\ sessions = <<>>

\* C28 as stated: an unlock or export invocation increments the failure
\* count if and only if its decryption failed with wrong-password, and an
\* invocation that ends with wallet-not-found or any other error, or that is
\* rejected by checkLockout, leaves the lockout record unchanged.
C28_OnlyWrongPasswordTouchesRecord ==
    [][\A n \in Names :
         (res'.op \in {"unlock", "export"} /\ res'.name = n)
         => /\ res'.code = "ERR_WRONG_PASSWORD"
                 <=> /\ n \in DOMAIN lockouts'
                     /\ lockouts'[n].last_failed_at = now
                     /\ lockouts'[n].failed_attempts
                          = checkLockout(lockouts, n, now).record.failed_attempts + 1
            /\ res'.code \notin {"OK", "ERR_WRONG_PASSWORD"} => lockouts' = lockouts
      ]_vars

\* C28: what holds.  The failure count is incremented if and only if the
\* decryption failed with wrong-password.  A rejection by checkLockout leaves
\* the lockout record unchanged.  An invocation that passes the check and ends
\* with wallet-not-found or another error leaves the record as checkLockout
\* left it: unchanged, unless a lock on record had run out, which the check
\* resets to a clear record before the decryption is tried.
C28_OnlyWrongPasswordCounts ==
    [][\A n \in Names :
         (res'.op \in {"unlock", "export"} /\ res'.name = n)
         => /\ res'.code = "ERR_WRONG_PASSWORD"
                 <=> /\ n \in DOMAIN lockouts'
                     /\ lockouts'[n].last_failed_at = now
                     /\ lockouts'[n].failed_attempts
                          = checkLockout(lockouts, n, now).record.failed_attempts + 1
            /\ res'.code \in {"ERR_WALLET_LOCKED", "ERR_INVALID_INPUT",
                              "ERR_EXPORT_NOT_CONFIRMED"}
                 => lockouts' = lockouts
            /\ res'.code \notin {"OK", "ERR_WRONG_PASSWORD", "ERR_WALLET_LOCKED",
                                 "ERR_INVALID_INPUT", "ERR_EXPORT_NOT_CONFIRMED"}
                 => /\ lockouts' = checkLockout(lockouts, n, now).files
                    /\ (lockouts' # lockouts
                          => /\ lockouts[n].locked_until # Null
                             /\ lockouts[n].locked_until <= now
                             /\ lockouts'[n] = ZeroRecord)
      ]_vars

\* an export of a wallet whose record is damaged ended with an error other
\* than wrong-password while failures were on record, and they still are
C28_Witness ==
    /\ res.op = "export"
    /\ res.code = "ERR_INTERNAL"
    /\ res.name \in DOMAIN lockouts
    /\ lockouts[res.name].failed_attempts >= 1
    /\ lockouts[res.name].last_failed_at < now

\* C29: a full lock always ends.  Once the clock has reached locked_until,
\* checkLockout succeeds, writes the record back reset to clear (count 0, no
\* time of last failure, no lock) and applies no backoff.  An unlock at such
\* an instant with the password of the wallet succeeds and issues a session;
\* one with another password is counted as failure 1 of a fresh run.  A lock
\* is set only by a failure that brings the count from 4 to 5, and no step
\* raises the count by more than one, so five fresh failures are needed to
\* lock the wallet again.
C29_FullLockEnds ==
    [][\A n \in Names :
         /\ (/\ n \in DOMAIN lockouts
             /\ lockouts[n].locked_until # Null
             /\ lockouts[n].locked_until <= now)
            => LET chk == checkLockout(lockouts, n, now)
               IN  /\ chk.ok
                   /\ chk.record = ZeroRecord
                   /\ chk.files = Put(lockouts, n, ZeroRecord)
                   /\ (res'.op = "unlock" /\ res'.name = n
                         /\ res'.code # "ERR_INVALID_INPUT")
                      => /\ n \in DOMAIN keystores
                         /\ IF res'.pw = PasswordOf(n)
                            THEN /\ res'.code = "OK"
                                 /\ res'.token # NoToken
                                 /\ n \in DOMAIN sessions'
                                 /\ n \notin DOMAIN lockouts'
                            ELSE /\ res'.code = "ERR_WRONG_PASSWORD"
                                 /\ lockouts'[n] = [failed_attempts |-> 1,
                                                    last_failed_at |-> now,
                                                    locked_until |-> Null]
         /\ readLockoutRecord(lockouts', n).failed_attempts
                <= readLockoutRecord(lockouts, n).failed_attempts + 1
         /\ (/\ readLockoutRecord(lockouts', n).locked_until # Null
             /\ readLockoutRecord(lockouts', n).locked_until
                    # readLockoutRecord(lockouts, n).locked_until)
            => /\ res'.code = "ERR_WRONG_PASSWORD"
               /\ checkLockout(lockouts, n, now).record.failed_attempts
                      = MAX_FAILED_ATTEMPTS - 1
               /\ lockouts'[n].failed_attempts = MAX_FAILED_ATTEMPTS
      ]_vars

\* a wallet that was locked is unlocked with its password once the lock ran out
C29_Witness ==
    /\ res.op = "unlock"
    /\ res.code = "OK"
    /\ res.token # NoToken
    /\ res.name \notin DOMAIN lockouts
    /\ resets = 1
    /\ now >= MAX_FAILED_ATTEMPTS * BASE_DELAY_MS + LOCKOUT_DURATION_MS

\* C25 as stated: however unlock and export invocations interleave, at most
\* five wrong guesses are tested against the keystore between two points at
\* which the failure count starts over, and each tested wrong guess raises
\* the persisted count by exactly one.
C25_BoundUnderInterleaving ==
    [][\A n \in Names :
         /\ tested'[n].n <= MAX_FAILED_ATTEMPTS
         /\ tested'[n].n = tested[n].n + 1
              => readLockoutRecord(lockouts', n).failed_attempts
                   = readLockoutRecord(lockouts, n).failed_attempts + 1
      ]_vars

\* C25: what holds.  A tested wrong guess persists the count its own
\* invocation was given by checkLockout, plus one, never more than five.  As
\* long as no invocation ran its check while another was between its check
\* and its record, the persisted count is the number of wrong guesses tested
\* since the count last started over, so at most five are tested and each
\* raises the count by one.
C25_BoundWithoutOverlap ==
    [][\A n \in Names :
         /\ \A p \in Procs :
              (/\ attempts[p].pc = "checked"
               /\ attempts[p].name = n
               /\ tested'[n].n = tested[n].n + 1
               /\ attempts'[p].pc = "idle")
              => /\ lockouts'[n].failed_attempts = attempts[p].record.failed_attempts + 1
                 /\ lockouts'[n].failed_attempts <= MAX_FAILED_ATTEMPTS
         /\ ~tested'[n].overlap
              => /\ tested'[n].n = readLockoutRecord(lockouts', n).failed_attempts
                 /\ tested'[n].n <= MAX_FAILED_ATTEMPTS
         /\ (~tested'[n].overlap /\ tested'[n].n = tested[n].n + 1)
              => readLockoutRecord(lockouts', n).failed_attempts
                   = readLockoutRecord(lockouts, n).failed_attempts + 1
      ]_vars

\* the fifth wrong guess in a row by invocations that never overlapped was
\* tested and set the lock
C25_Witness ==
    /\ res.code = "ERR_WRONG_PASSWORD"
    /\ res.name \in DOMAIN lockouts
    /\ ~tested[res.name].overlap
    /\ tested[res.name].n = MAX_FAILED_ATTEMPTS
    /\ lockouts[res.name].failed_attempts = MAX_FAILED_ATTEMPTS
    /\ lockouts[res.name].locked_until # Null

----------------------------------------------------------------------------
(* Properties of the keystore *)

\* C15: for every password different from the one used at creation,
\* decryptKeystore fails with wrong-password and returns no secret, and the
\* stored keystore record is left as it was (also by the unlock and export
\* commands that called it, which issue no session and export nothing).
C15_WrongPassword ==
    [][/\ \A n \in DOMAIN keystores :
            \A p \in Passwords \cup {"", "P1 ", "p1"} :
                p # PasswordOf(n)
                    => /\ decryptKeystore(keystores, n, p).code = "ERR_WRONG_PASSWORD"
                       /\ decryptKeystore(keystores, n, p).mnemonic = ""
       /\ \A n \in DOMAIN keystores :
            (/\ res'.op \in {"unlock", "export"}
             /\ res'.name = n
             /\ res'.pw # PasswordOf(n)
             /\ res'.code \notin {"ERR_INVALID_INPUT", "ERR_EXPORT_NOT_CONFIRMED"})
                => /\ res'.code \in {"ERR_WRONG_PASSWORD", "ERR_WALLET_LOCKED"}
                   /\ res'.value = ""
                   /\ keystores' = keystores
                   /\ sessions' = sessions
      ]_vars

\* an export with a password other than the one of the wallet is refused as
\* wrong-password
C15_Witness ==
    /\ res.op = "export"
    /\ res.code = "ERR_WRONG_PASSWORD"
    /\ res.value = ""
    /\ res.name \in DOMAIN keystores
    /\ res.pw # PasswordOf(res.name)

\* C19: decryptKeystore reports wrong-password exactly when the tag check of
\* the keystore decryption fails: a command ends ERR_WRONG_PASSWORD only if
\* the check ran on the stored record under the key of the password given and
\* failed, and every such failure of a command that got past the lockout
\* check ends so.  No other failure is classified as wrong-password.
C19_WrongPasswordIffTagFails ==
    [][\A n \in Names :
         (/\ res'.op \in {"unlock", "export"}
          /\ res'.name = n
          /\ res'.code \notin {"ERR_WALLET_LOCKED", "ERR_INVALID_INPUT",
                               "ERR_EXPORT_NOT_CONFIRMED"})
         => (res'.code = "ERR_WRONG_PASSWORD"
               <=> /\ n \in DOMAIN keystores
                   /\ TagCheckFails(keystores[n].cipher,
                                    deriveKeyFromPassword(res'.pw,
                                                          keystores[n].kdf.salt.hex)))
      ]_vars

\* C23: keystore round trip.  decryptKeystore with the same password on the
\* record createKeystore wrote returns exactly the secret given, for every
\* secret and password: the key is derived again from the salt stored in the
\* record.  So every create that succeeds leaves a record that opens under its
\* password to the secret it holds, and every export that succeeds puts out
\* that secret.
C23_KeystoreRoundTrip ==
    [][/\ \A m \in Secrets, p \in Passwords, n \in Names, salt \in {2, 6}, iv \in {3, 7} :
            decryptKeystore(Put(<<>>, n, KeystoreFile(n, m, p, salt, iv, now)), n, p)
                = [code |-> "OK", mnemonic |-> m]
       /\ \A n \in Names :
            (res'.op = "create" /\ res'.name = n /\ res'.code = "OK")
                => \E m \in Secrets :
                     /\ keystores'[n] = KeystoreFile(n, m, res'.pw, Draw(rng', 2),
                                                     Draw(rng', 3), now)
                     /\ keystores'[n].kdf.salt = Hex(Draw(rng', 2))
                     /\ decryptKeystore(keystores', n, res'.pw)
                            = [code |-> "OK", mnemonic |-> m]
       /\ \A n \in Names :
            (res'.op = "export" /\ res'.name = n /\ res'.code = "OK")
                => res'.value = keystores[n].cipher.ciphertext.hex.pt
      ]_vars

\* a wallet created with secret S2 under password P1 was exported with P1
\* after a failed attempt, and S2 came out
C23_Witness ==
    /\ res.op = "export"
    /\ res.code = "OK"
    /\ res.pw = "P1"
    /\ res.value = "S2"
    /\ resets >= 1
    /\ decryptKeystore(keystores, res.name, "P1") = [code |-> "OK", mnemonic |-> "S2"]

\* C16: createKeystore for a name that already has a record fails with
\* wallet-already-exists and leaves the record untouched: decrypting with the
\* first password still yields the first secret, and the password of the
\* rejected call opens nothing it did not open before.
C16_DuplicateCreation ==
    [][\A n \in Names :
         /\ (res'.op = "create" /\ res'.name = n /\ n \in DOMAIN keystores)
                => /\ res'.code = "ERR_WALLET_EXISTS"
                   /\ keystores' = keystores
                   /\ \A k \in KeystoreInputs :
                        decryptKeystore(keystores', n, k[2])
                            = decryptKeystore(keystores, n, k[2])
         /\ (res'.op = "create" /\ res'.name = n /\ n \notin DOMAIN keystores)
                => /\ res'.code = "OK"
                   /\ \E k \in KeystoreInputs :
                        /\ k[2] = res'.pw
                        /\ decryptKeystore(keystores', n, k[2]).code = "OK"
                        /\ decryptKeystore(keystores', n, k[2]).mnemonic = k[1]
      ]_vars

\* a second create, with the other secret and password, was rejected; the
\* first password still opens the first secret
C16_Witness ==
    /\ res.op = "create"
    /\ res.code = "ERR_WALLET_EXISTS"
    /\ res.name \in DOMAIN keystores
    /\ res.pw = "P2"
    /\ decryptKeystore(keystores, res.name, "P1").code = "OK"
    /\ decryptKeystore(keystores, res.name, "P1").mnemonic = "S1"

\* C17: createKeystore checks and writes without a lock.  When a process has
\* passed the existence check, its write succeeds whatever another process
\* wrote meanwhile: it reports success and the stored record becomes the one
\* it wrote, so that of two interleaved invocations both succeed and the
\* record of the last writer is what remains (it opens with the last
\* writer's password only, to the last writer's secret).
C17_LastWriterWins ==
    [][\A p \in Procs :
         (inflight[p].pc = "checked" /\ inflight'[p].pc = "returned")
         => LET c == inflight[p]
            IN  /\ inflight'[p].code = "OK"
                /\ res'.op = "create"
                /\ res'.code = "OK"
                /\ c.name \in DOMAIN keystores'
                /\ c.name \in DOMAIN keystores => keystores'[c.name] # keystores[c.name]
                /\ decryptKeystore(keystores', c.name, c.password)
                     = [code |-> "OK", mnemonic |-> c.mnemonic]
                /\ \A pw \in Passwords \ {c.password} :
                     decryptKeystore(keystores', c.name, pw).code = "ERR_WRONG_PASSWORD"
      ]_vars

\* both processes returned success for the same name with different secrets;
\* the stored record opens to the secret of the one that wrote last, and the
\* other's password is refused
C17_Witness ==
    /\ \A p \in Procs : inflight[p].pc = "returned" /\ inflight[p].code = "OK"
    /\ inflight[1].name = inflight[2].name
    /\ inflight[1].mnemonic # inflight[2].mnemonic
    /\ res.op = "create"
    /\ \E p \in Procs :
         /\ inflight[p].password = res.pw
         /\ decryptKeystore(keystores, res.name, res.pw).mnemonic = inflight[p].mnemonic
         /\ \A q \in Procs \ {p} :
              decryptKeystore(keystores, res.name, inflight[q].password).code
                = "ERR_WRONG_PASSWORD"

\* C18: there is at most one keystore record per wallet name (its file),
\* and once written it is never changed or removed by a later operation: a
\* decrypt with a right or a wrong password, a rejected create, unlock,
\* export, issue, validate, revoke, or any lockout operation.
C18_KeystoreImmutable ==
    [][\A n \in DOMAIN keystores :
         /\ n \in DOMAIN keystores'
         /\ keystores'[n] = keystores[n]
      ]_vars

\* after a failed decrypt, the passing of time and a decrypt that succeeded
\* and cleared the failure record, a second create is rejected and the record
\* is still the one written at time 0
C18_Witness ==
    /\ res.op = "create"
    /\ res.code = "ERR_WALLET_EXISTS"
    /\ res.name \in DOMAIN keystores
    /\ keystores[res.name].created_at = 0
    /\ now > 0
    /\ resets >= 1
    /\ res.name \notin DOMAIN lockouts

----------------------------------------------------------------------------
(* Properties of the commands taken together *)

\* C14: no operation mutates persisted state when it fails.  A failing
\* create, a failing check (the command ends ERR_WALLET_LOCKED), a validate
\* failing as invalid or not-found, and a command refused for its arguments
\* leave keystore, session and lockout records exactly as they were; a failing
\* decrypt leaves keystore and sessions as they were (what changes then is the
\* lockout record, written by recordFailedAttempt, which does not fail); a
\* validate failing with session-expired deletes that session record and
\* nothing else.
C14_FailureLeavesFiles ==
    [][\A n \in Names :
         LET same == /\ keystores' = keystores
                     /\ sessions' = sessions
                     /\ lockouts' = lockouts
                     /\ tokenFiles' = tokenFiles
         IN  /\ (res'.op = "create" /\ res'.name = n /\ res'.code # "OK") => same
             /\ (/\ res'.op \in {"unlock", "export"}
                 /\ res'.name = n
                 /\ res'.code \in {"ERR_WALLET_LOCKED", "ERR_WALLET_NOT_FOUND",
                                   "ERR_INVALID_INPUT", "ERR_EXPORT_NOT_CONFIRMED"})
                    => same
             /\ (/\ res'.op \in {"unlock", "export"}
                 /\ res'.name = n
                 /\ res'.code = "ERR_WRONG_PASSWORD")
                    => /\ keystores' = keystores
                       /\ sessions' = sessions
                       /\ tokenFiles' = tokenFiles
                       /\ n \in DOMAIN lockouts'
                       /\ lockouts'[n].last_failed_at = now
                       /\ lockouts'[n].failed_attempts >= 1
             /\ (/\ res'.op = "validate"
                 /\ res'.name = n
                 /\ res'.code \notin {"OK", "ERR_SESSION_EXPIRED"})
                    => same
             /\ (/\ res'.op = "validate"
                 /\ res'.name = n
                 /\ res'.code = "ERR_SESSION_EXPIRED")
                    => /\ keystores' = keystores
                       /\ lockouts' = lockouts
                       /\ n \in DOMAIN sessions
                       /\ sessions' = Remove(sessions, n)
      ]_vars

\* a validation with a token that was never issued is refused as invalid
\* while a keystore, a lockout record and a live session are on disk
C14_Witness ==
    /\ res.op = "validate"
    /\ res.code = "ERR_SESSION_INVALID"
    /\ res.name \in DOMAIN keystores
    /\ res.name \in DOMAIN lockouts
    /\ res.name \in DOMAIN sessions
    /\ lockouts[res.name].failed_attempts >= 1

----------------------------------------------------------------------------
(* Properties of what a session leaves on disk *)

\* C9: the token-secret half of the bearer token is never persisted: no
\* file of the subsystem (session record, token file, keystore) holds, in the
\* clear, the token secret drawn by any createSession, nor the encoded
\* bearer token.  (A lockout record holds a counter and two timestamps and no
\* buffer at all.)
C9_SecretNeverPersisted ==
    \A i \in 1..rng :
        LET tokenSecret == Draw(i, 1)
            token == encodeToken(Draw(i, 0), tokenSecret)
        IN  \A n \in Names :
                /\ n \in DOMAIN tokenFiles
                       => (tokenFiles[n] # token /\ tokenFiles[n].secret # tokenSecret)
                /\ n \in DOMAIN sessions
                       => tokenSecret \notin {sessions[n].token_id.hex,
                                              sessions[n].hkdf_salt.hex,
                                              sessions[n].cipher.iv.hex}
                /\ n \in DOMAIN keystores
                       => tokenSecret \notin {keystores[n].kdf.salt.hex,
                                              keystores[n].cipher.iv.hex}

\* C10: every session record has expires_at - created_at equal to
\* min(requested duration, 86400) seconds, or 3600 seconds when no duration
\* was given, and so never more than 24 hours.
C10_Lifetime ==
    \A n \in DOMAIN sessions :
        LET life == sessions[n].expires_at - sessions[n].created_at
            asked == issued[n].duration
        IN  /\ asked = <<>> => life = 3600 * 1000
            /\ asked # <<>> => life = Min(asked[1], 86400) * 1000
            /\ life <= 24 * 60 * 60 * 1000

\* a session asked for with more than 24 hours is on disk
C10_Witness ==
    \E n \in DOMAIN sessions :
        /\ issued[n].duration # <<>>
        /\ issued[n].duration[1] > 86400
        /\ sessions[n].expires_at - sessions[n].created_at = 86400000

====
